---- MODULE Spec2Model ----
(***************************************************************************)
(* Model of src/src/queue-rate-limited.js: a rate limited task queue.      *)
(* Every public method and the timer callback is one atomic action (the    *)
(* JavaScript event loop runs each of them to completion).  Time is the    *)
(* value of Date.now() in milliseconds; a task body takes no time.         *)
(***************************************************************************)
EXTENDS Integers, Sequences, FiniteSets, TLC

\* ---------------------------------------------------------------- bounds
MaxEntries == 3       \* entries ever created by add()
MaxTime == 3          \* last value of Date.now() that is explored

\* ------------------------------------------------- JavaScript values
Undefined == -2       \* the value undefined
NaN == -1             \* the number NaN
Null == -3            \* the value null

\* arguments the constructor is called with: 500 calls per second gives an
\* interval of 2 ms; Undefined is the call new Queue()
RateArgs == {500, Undefined}

\* a - b on numbers; null converts to 0, undefined to NaN
JsSub(a, b) ==
    LET x == IF a = Null THEN 0 ELSE a
        y == IF b = Null THEN 0 ELSE b
    IN  IF x \in {NaN, Undefined} \/ y \in {NaN, Undefined} THEN NaN ELSE x - y

\* a / b for the divisions the constructor performs (exact for RateArgs)
JsDiv(a, b) ==
    IF a \in {NaN, Undefined} \/ b \in {NaN, Undefined} THEN NaN ELSE a \div b

\* a > b; any comparison with NaN is false
JsGt(a, b) ==
    /\ a \notin {NaN, Undefined}
    /\ b \notin {NaN, Undefined}
    /\ (IF a = Null THEN 0 ELSE a) > (IF b = Null THEN 0 ELSE b)

\* ToBoolean(x) for the values of the model
Truthy(x) == x \notin {Undefined, NaN, Null, 0}

\* ------------------------------------------------- tasks and callbacks
\* task functions a caller passes: fRet returns, fThrow throws, fAppend
\* calls queue.append(fInner) from its body and returns; fInner returns
Tasks == {"fRet", "fThrow", "fAppend"}
InnerTask == "fInner"
\* onSuccess callbacks: cbOk records its argument, cbThrow records and throws
\* (onError always records its argument and returns)
Callbacks == {"cbOk", "cbThrow"}
\* the (task, onSuccess) pairs handed to append and prepend
Inputs == {<<"fRet", "cbOk">>, <<"fThrow", "cbOk">>, <<"fAppend", "cbThrow">>}

Raises(task) == task = "fThrow"
\* the value a task returns, and the value it throws
ResultOf(task) == <<"result", task>>
ErrorOf(task) == <<"error", task>>
CallbackError == <<"error", "onSuccess">>

VARIABLES
    maxCallsPerSecond,     \* this.maxCallsPerSecond
    jobIntervalMillis,     \* this.jobIntervalMillis
    tasks,                 \* this.tasks
    isActive,              \* this.isActive
    lastTaskTimestamp,     \* this.lastTaskTimestamp
    currentTaskTimeoutId,  \* this.currentTaskTimeoutId
    timers,                \* timers armed by setTimeout and neither fired nor cleared
    now,                   \* Date.now()
    nextId,                \* number of entries created so far, plus one
    executions,            \* history: the task executions of the last step, in order
    calls,                 \* history: the callback invocations of the last step, in order
    lastStart,             \* history: Date.now() when the last execution started
    lastCall,              \* history: the call of the last step, its argument, its result
                           \* (after construction: new, with the constructor's argument)
    stopMark               \* history: nextId at the last stop() of an active queue

vars == <<maxCallsPerSecond, jobIntervalMillis, tasks, isActive, lastTaskTimestamp,
          currentTaskTimeoutId, timers, now, nextId, executions, calls,
          lastStart, lastCall, stopMark>>

\* the queue object as a handler finds it, with the histories it writes: no
\* task executed, no callback invoked and no task running yet
Queue ==
    [tasks |-> tasks, isActive |-> isActive,
     lastTaskTimestamp |-> lastTaskTimestamp,
     currentTaskTimeoutId |-> currentTaskTimeoutId, timers |-> timers,
     nextId |-> nextId, executions |-> <<>>, calls |-> <<>>,
     lastStart |-> lastStart, inFlight |-> 0]

IsEmpty(q) == Len(q.tasks) = 0
IsNotEmpty(q) == ~IsEmpty(q)
GetQueueSize(q) == Len(q.tasks)
IsStarted(q) == q.isActive
\* an isStopped that negates the method instead of its result
IsStoppedNever(q) == FALSE
IsStopped(q) == ~IsStarted(q)
GetMaxCallsPerSecond == maxCallsPerSecond

\* the delay Node's setTimeout uses for a requested delay
TimerDelay(d) == IF d \in {NaN, Undefined, Null} \/ d < 1 THEN 1 ELSE d

\* a handle setTimeout has not handed out to a live timer or to the queue
NewTimerId(q) ==
    CHOOSE i \in 1..(Cardinality(q.timers) + 2) :
        /\ i # q.currentTaskTimeoutId
        /\ \A t \in q.timers : t.id # i
        /\ \A j \in 1..(i - 1) :
              j = q.currentTaskTimeoutId \/ \E t \in q.timers : t.id = j

RECURSIVE ProcessNextTask(_), UpdateTaskSchedule(_), Add(_, _, _, _)

\* scheduleNext(timeoutMillisOverride)
ScheduleNext(q, timeoutMillisOverride) ==
    IF IsEmpty(q) THEN q
    ELSE LET delay == IF Truthy(timeoutMillisOverride) /\ JsGt(timeoutMillisOverride, 0)
                      THEN timeoutMillisOverride ELSE jobIntervalMillis
             id == NewTimerId(q)
         IN  [q EXCEPT !.timers = @ \cup {[id |-> id, at |-> now + TimerDelay(delay)]},
                       !.currentTaskTimeoutId = id]

\* a callback of entry item is invoked with arg
Invoke(q, item, cb, arg) ==
    [q EXCEPT !.calls = Append(@, [eid |-> item.eid, cb |-> cb, arg |-> arg])]

\* a dispatch that also reports a returned task to onError
DispatchBoth(q, nextTaskItem) ==
    IF Raises(nextTaskItem.task)
    THEN Invoke(q, nextTaskItem, "onError", ErrorOf(nextTaskItem.task))
    ELSE Invoke(Invoke([q EXCEPT !.lastTaskTimestamp = now], nextTaskItem,
                       "onSuccess", ResultOf(nextTaskItem.task)),
                nextTaskItem, "onError", ResultOf(nextTaskItem.task))

\* the try block of processNextTask once the call of the task is over: a task
\* that raised goes to the catch clause; for one that returned the timestamp
\* is set and onSuccess is called, and an exception of onSuccess is caught too
Dispatch(q, nextTaskItem) ==
    IF Raises(nextTaskItem.task)
    THEN Invoke(q, nextTaskItem, "onError", ErrorOf(nextTaskItem.task))
    ELSE LET succ == Invoke([q EXCEPT !.lastTaskTimestamp = now], nextTaskItem,
                            "onSuccess", ResultOf(nextTaskItem.task))
         IN  IF nextTaskItem.onSuccess = "cbThrow"
             THEN Invoke(succ, nextTaskItem, "onError", CallbackError)
             ELSE succ

\* a processNextTask whose shift takes two entries off the queue
ProcessNextTaskDropTwo(q) ==
    IF IsEmpty(q) THEN q
    ELSE
      LET nextTaskItem == Head(q.tasks)
          started == [q EXCEPT
                        !.tasks = Tail(IF Len(@) > 1 THEN Tail(@) ELSE @),
                        !.executions = Append(@, [eid |-> nextTaskItem.eid,
                                                  task |-> nextTaskItem.task,
                                                  onSuccess |-> nextTaskItem.onSuccess,
                                                  inFlight |-> q.inFlight]),
                        !.lastStart = now,
                        !.inFlight = @ + 1]
          body == IF nextTaskItem.task = "fAppend"
                  THEN Add(started, InnerTask, TRUE, "cbOk")
                  ELSE started
          returned == [body EXCEPT !.inFlight = @ - 1]
      IN  Dispatch(returned, nextTaskItem)

\* processNextTask(); inFlight counts the tasks that are running
ProcessNextTask(q) ==
    IF IsEmpty(q) THEN q
    ELSE
      LET nextTaskItem == Head(q.tasks)
          started == [q EXCEPT
                        !.tasks = Tail(@),
                        !.executions = Append(@, [eid |-> nextTaskItem.eid,
                                                  task |-> nextTaskItem.task,
                                                  onSuccess |-> nextTaskItem.onSuccess,
                                                  inFlight |-> q.inFlight]),
                        !.lastStart = now,
                        !.inFlight = @ + 1]
          \* the body of the task
          body == IF nextTaskItem.task = "fAppend"
                  THEN Add(started, InnerTask, TRUE, "cbOk")
                  ELSE started
          returned == [body EXCEPT !.inFlight = @ - 1]
      IN  Dispatch(returned, nextTaskItem)

\* Queue.prototype.updateTaskSchedule
UpdateTaskSchedule(q) ==
    IF IsEmpty(q) \/ IsStopped(q) THEN q
    ELSE LET sinceLastInterval == JsSub(now, q.lastTaskTimestamp)
         IN  IF q.lastTaskTimestamp = Null \/ JsGt(sinceLastInterval, jobIntervalMillis)
             THEN ScheduleNext(ProcessNextTask(q), Undefined)
             ELSE ScheduleNext(q, JsSub(jobIntervalMillis, sinceLastInterval))

\* an add that always inserts at the tail
AddAtTail(q, task, append, onSuccess) ==
    LET newTaskItem == [eid |-> q.nextId, task |-> task, onSuccess |-> onSuccess]
    IN  UpdateTaskSchedule([q EXCEPT !.tasks = Append(@, newTaskItem), !.nextId = @ + 1])

\* an add whose prepend overwrites the head instead of shifting it
AddReplacing(q, task, append, onSuccess) ==
    LET newTaskItem == [eid |-> q.nextId, task |-> task, onSuccess |-> onSuccess]
        pushed == IF IsEmpty(q) \/ append
                  THEN [q EXCEPT !.tasks = Append(@, newTaskItem), !.nextId = @ + 1]
                  ELSE [q EXCEPT !.tasks = <<newTaskItem>> \o Tail(@), !.nextId = @ + 1]
    IN  UpdateTaskSchedule(pushed)

\* Queue.prototype.add; eid numbers the entries in the order of their creation
Add(q, task, append, onSuccess) ==
    LET newTaskItem == [eid |-> q.nextId, task |-> task, onSuccess |-> onSuccess]
        pushed == IF IsEmpty(q) \/ append
                  THEN [q EXCEPT !.tasks = Append(@, newTaskItem), !.nextId = @ + 1]
                  ELSE [q EXCEPT !.tasks = <<newTaskItem>> \o @, !.nextId = @ + 1]
    IN  UpdateTaskSchedule(pushed)

\* a start that updates the schedule of an active queue as well
StartCallAlways(q) ==
    [q |-> UpdateTaskSchedule([q EXCEPT !.isActive = TRUE]), ret |-> ~q.isActive]

\* Queue.prototype.start: the queue after the call and the value returned
StartCall(q) ==
    IF q.isActive THEN [q |-> q, ret |-> FALSE]
    ELSE [q |-> UpdateTaskSchedule([q EXCEPT !.isActive = TRUE]), ret |-> TRUE]

\* Queue.prototype.stop
StopCall(q) ==
    IF q.isActive
    THEN LET off == [q EXCEPT !.isActive = FALSE]
         IN  IF Truthy(off.currentTaskTimeoutId)
             THEN [off EXCEPT !.timers = {t \in @ : t.id # off.currentTaskTimeoutId},
                              !.currentTaskTimeoutId = Null]
             ELSE off
    ELSE q

RECURSIVE RemoveLoop(_, _, _, _), RemoveLoopFirst(_, _, _, _)

\* a loop that leaves after the first entry it has removed
RemoveLoopFirst(ts, i, task, removedItems) ==
    IF i < 1 THEN [tasks |-> ts, removedItems |-> removedItems]
    ELSE IF ts[i].task = task
         THEN [tasks |-> SubSeq(ts, 1, i - 1) \o SubSeq(ts, i + 1, Len(ts)),
               removedItems |-> removedItems + 1]
         ELSE RemoveLoopFirst(ts, i - 1, task, removedItems)

\* the loop of Queue.prototype.remove, from index i down to 1
RemoveLoop(ts, i, task, removedItems) ==
    IF i < 1 THEN [tasks |-> ts, removedItems |-> removedItems]
    ELSE IF ts[i].task = task
         THEN RemoveLoop(SubSeq(ts, 1, i - 1) \o SubSeq(ts, i + 1, Len(ts)),
                         i - 1, task, removedItems + 1)
         ELSE RemoveLoop(ts, i - 1, task, removedItems)

\* Queue.prototype.remove: the queue after the call and the value returned
RemoveCall(q, task) ==
    IF IsEmpty(q) THEN [q |-> q, ret |-> 0]
    ELSE LET r == RemoveLoop(q.tasks, Len(q.tasks), task, 0)
         IN  [q |-> [q EXCEPT !.tasks = r.tasks], ret |-> r.removedItems]

\* the function handed to setTimeout, run for the timer with handle id
TimerCallback(q, id) ==
    LET fired == [q EXCEPT !.timers = {t \in @ : t.id # id}]
    IN  [ProcessNextTask(fired) EXCEPT !.lastTaskTimestamp = now]

\* ------------------------------------------------------------- actions
\* the queue's fields and the histories take their values from q
Becomes(q) ==
    /\ tasks' = q.tasks
    /\ isActive' = q.isActive
    /\ lastTaskTimestamp' = q.lastTaskTimestamp
    /\ currentTaskTimeoutId' = q.currentTaskTimeoutId
    /\ timers' = q.timers
    /\ nextId' = q.nextId
    /\ executions' = q.executions
    /\ calls' = q.calls
    /\ lastStart' = q.lastStart

\* entries the pending fAppend tasks will still create when they run
Reserved(ts) == Cardinality({i \in 1..Len(ts) : ts[i].task = "fAppend"})
Weight(task) == IF task = "fAppend" THEN 2 ELSE 1
Room(task) == (nextId - 1) + Reserved(tasks) + Weight(task) <= MaxEntries

\* new Queue(maxCallsPerSecond)
Init ==
    /\ \E arg \in RateArgs :
          /\ maxCallsPerSecond = (IF arg = Undefined THEN 1 ELSE arg)
          /\ jobIntervalMillis = JsDiv(1000, arg)
          /\ lastCall = [op |-> "new", arg |-> arg, val |-> Undefined]
    /\ tasks = <<>>
    /\ isActive = FALSE
    /\ lastTaskTimestamp = Null
    /\ currentTaskTimeoutId = Null
    /\ timers = {}
    /\ now = 0
    /\ nextId = 1
    /\ executions = <<>>
    /\ calls = <<>>
    /\ lastStart = Null
    /\ stopMark = 1

Start ==
    /\ LET r == StartCall(Queue)
       IN  Becomes(r.q) /\ lastCall' = [op |-> "start", arg |-> Undefined, val |-> r.ret]
    /\ UNCHANGED <<maxCallsPerSecond, jobIntervalMillis, now, stopMark>>

Stop ==
    /\ Becomes(StopCall(Queue))
    /\ stopMark' = (IF isActive THEN nextId ELSE stopMark)
    /\ lastCall' = [op |-> "stop", arg |-> Undefined, val |-> Undefined]
    /\ UNCHANGED <<maxCallsPerSecond, jobIntervalMillis, now>>

AppendTask ==
    \E in \in Inputs :
        /\ Room(in[1])
        /\ Becomes(Add(Queue, in[1], TRUE, in[2]))
        /\ lastCall' = [op |-> "append", arg |-> Undefined, val |-> Undefined]
        /\ UNCHANGED <<maxCallsPerSecond, jobIntervalMillis, now, stopMark>>

PrependTask ==
    \E in \in Inputs :
        /\ Room(in[1])
        /\ Becomes(Add(Queue, in[1], FALSE, in[2]))
        /\ lastCall' = [op |-> "prepend", arg |-> Undefined, val |-> Undefined]
        /\ UNCHANGED <<maxCallsPerSecond, jobIntervalMillis, now, stopMark>>

Remove ==
    \E task \in Tasks :
        /\ LET r == RemoveCall(Queue, task)
           IN  Becomes(r.q) /\ lastCall' = [op |-> "remove", arg |-> task, val |-> r.ret]
        /\ UNCHANGED <<maxCallsPerSecond, jobIntervalMillis, now, stopMark>>

\* a timer fires, at its time or later
TimerFires ==
    \E t \in timers :
        /\ t.at <= now
        /\ Becomes(TimerCallback(Queue, t.id))
        /\ lastCall' = [op |-> "timer", arg |-> Undefined, val |-> Undefined]
        /\ UNCHANGED <<maxCallsPerSecond, jobIntervalMillis, now, stopMark>>

\* a millisecond passes
Tick ==
    /\ now < MaxTime
    /\ now' = now + 1
    /\ lastCall' = [op |-> "tick", arg |-> Undefined, val |-> Undefined]
    /\ executions' = <<>>
    /\ calls' = <<>>
    /\ UNCHANGED <<maxCallsPerSecond, jobIntervalMillis, tasks, isActive,
                   lastTaskTimestamp, currentTaskTimeoutId, timers, nextId,
                   lastStart, stopMark>>

Next ==
    \/ Start
    \/ Stop
    \/ AppendTask
    \/ PrependTask
    \/ Remove
    \/ TimerFires
    \/ Tick

Spec == Init /\ [][Next]_vars

\* ------------------------------------------------------------- claims
\* the interval the documentation derives from the rate: 1000 / rate
IntervalMillis == 1000 \div maxCallsPerSecond

Eids(seq) == [i \in 1..Len(seq) |-> seq[i].eid]
\* the entries the step created
Created == [i \in 1..(nextId' - nextId) |-> nextId + i - 1]

\* C1: rate ceiling: for a queue constructed with a rate, whatever calls and
\* timer firings came before, a task that no running task has started begins
\* at least 1000 / rate milliseconds after the task before it began.
RateCeiling ==
    [][(jobIntervalMillis # NaN /\ executions' # <<>> /\ executions'[1].inFlight = 0) =>
          (lastStart = Null \/ now' - lastStart >= IntervalMillis)]_vars

\* C2: drain liveness, in the form a finite run refutes: tasks run only from
\* a call or from a timer, so when the queue is active and no timer is left
\* every pending task must have been executed.
DrainedWhenIdle == (isActive /\ timers = {}) => tasks = <<>>

\* C3: no execution while stopped: a step that executes a task leaves the
\* queue active (start() activates it first; every other step that executes
\* a task has to find it active).
NoExecutionWhileStopped == [][executions' # <<>> => isActive']_vars

\* C4: execution order: the tasks a step executes, followed by the tasks it
\* leaves pending, are the tasks that were pending before it in their old
\* order, with the entry of a prepend in front of them and every other new
\* entry behind them: each executed task was the head when it was popped,
\* appended tasks run in append order and a prepended task runs first.
ExecutionOrder ==
    [][/\ (lastCall'.op = "prepend" /\ tasks # <<>>) =>
              Eids(executions') \o Eids(tasks') = <<nextId>> \o Eids(tasks) \o Tail(Created)
       /\ (lastCall'.op \in {"append", "start", "timer"}
             \/ (lastCall'.op = "prepend" /\ tasks = <<>>)) =>
              Eids(executions') \o Eids(tasks') = Eids(tasks) \o Created
       /\ lastCall'.op \in {"stop", "remove", "tick"} => executions' = <<>>]_vars

\* C, prepended while A and B were pending, has run and A, B are still pending
ExecutionOrderWitness == Eids(executions) = <<3>> /\ Eids(tasks) = <<1, 2>>

\* C5: at most one task is in flight: no execution starts while another
\* task is running.
OneInFlight == \A i \in 1..Len(executions) : executions[i].inFlight = 0

CallsOf(eid) ==
    LET Mine(c) == c.eid = eid IN SelectSeq(calls, Mine)

\* C6: outcome dispatch: for every task a step executes whose onSuccess does
\* not throw, the step calls exactly one callback, once: onSuccess with the
\* value the task returned, or onError with the value it raised; and it calls
\* no callback of a task it does not execute.
OutcomeDispatch ==
    /\ \A i \in 1..Len(executions) :
          LET e == executions[i]
          IN  e.onSuccess = "cbOk" =>
                CallsOf(e.eid) =
                  IF Raises(e.task)
                  THEN <<[eid |-> e.eid, cb |-> "onError", arg |-> ErrorOf(e.task)]>>
                  ELSE <<[eid |-> e.eid, cb |-> "onSuccess", arg |-> ResultOf(e.task)]>>
    /\ \A j \in 1..Len(calls) :
          \E i \in 1..Len(executions) : executions[i].eid = calls[j].eid

\* a raising task was run by a timer (only the timer callback sets
\* lastTaskTimestamp after a task that raised) and onError was called
OutcomeDispatchWitness ==
    /\ Len(executions) = 1
    /\ Raises(executions[1].task)
    /\ lastTaskTimestamp = lastStart
    /\ Len(calls) = 1

\* the queue had every raising task been one that returns
AsReturning(task) == IF Raises(task) THEN "fRet" ELSE task
AllReturning(ts) == [i \in 1..Len(ts) |-> [ts[i] EXCEPT !.task = AsReturning(@)]]
Twin == [Queue EXCEPT !.tasks = AllReturning(@)]
\* what the scheduler goes by
Schedule(q) == <<AllReturning(q.tasks), q.isActive, q.lastTaskTimestamp,
                 q.currentTaskTimeoutId, q.timers>>

\* C7: failure containment: a step whose task raises leaves the queue as
\* the same step leaves it when the task returns: as active as it would be,
\* with the same pending entries and the same timestamp and timers, so the
\* pending tasks run as they would after a successful task.
FailureContainment ==
    [][(Len(executions') = 1 /\ Raises(executions'[1].task)) =>
          LET after == Schedule([Queue EXCEPT !.tasks = tasks', !.isActive = isActive',
                                   !.lastTaskTimestamp = lastTaskTimestamp',
                                   !.currentTaskTimeoutId = currentTaskTimeoutId',
                                   !.timers = timers'])
          IN  /\ lastCall'.op = "start" => after = Schedule(StartCall(Twin).q)
              /\ \A t \in timers :
                    (t.at <= now /\ Becomes(TimerCallback(Queue, t.id))) =>
                        after = Schedule(TimerCallback(Twin, t.id))
              /\ \A in \in Inputs : \A append \in BOOLEAN :
                    Becomes(Add(Queue, in[1], append, in[2])) =>
                        after = Schedule(Add(Twin, AsReturning(in[1]), append, in[2]))]_vars

\* C8: stop and start resume, in the form a finite run refutes: stop() leaves
\* pending as it is, and once the queue is active again and no timer is left
\* every task that was pending when it was stopped has been executed.
ResumeAfterStop ==
    /\ [][lastCall'.op = "stop" => tasks' = tasks]_vars
    /\ []((isActive /\ timers = {}) =>
            \A i \in 1..Len(tasks) : tasks[i].eid >= stopMark)

\* C9: start() on a stopped queue returns true and activates it; on an active
\* queue it returns false and changes nothing.
StartIdempotent ==
    [][lastCall'.op = "start" =>
          IF isActive
          THEN /\ lastCall'.val = FALSE
               /\ executions' = <<>>
               /\ calls' = <<>>
               /\ UNCHANGED <<tasks, isActive, lastTaskTimestamp, currentTaskTimeoutId,
                              timers>>
          ELSE lastCall'.val = TRUE /\ isActive']_vars

\* start() has returned false on a queue with a pending task and a timer
StartIdempotentWitness ==
    /\ lastCall.op = "start"
    /\ lastCall.val = FALSE
    /\ tasks # <<>>
    /\ timers # {}
    /\ lastTaskTimestamp # Null

\* C10: remove(t) deletes every pending entry of task t, returns their
\* number, keeps the order of the others and changes nothing else.
RemoveAllOccurrences ==
    [][lastCall'.op = "remove" =>
          LET Other(e) == e.task # lastCall'.arg
          IN  /\ tasks' = SelectSeq(tasks, Other)
              /\ lastCall'.val = Len(tasks) - Len(SelectSeq(tasks, Other))
              /\ executions' = <<>>
              /\ calls' = <<>>
              /\ UNCHANGED <<isActive, lastTaskTimestamp, currentTaskTimeoutId,
                             timers>>]_vars

\* remove(fRet) has deleted two entries around one of another task
RemoveAllOccurrencesWitness ==
    /\ lastCall.op = "remove"
    /\ lastCall.val = 2
    /\ Len(tasks) = 1
    /\ tasks[1].eid = 2

\* C11 as stated: every call of append or prepend leaves getQueueSize() one
\* greater than it was before the call, whatever the state of the queue.
SizeGrowsByOne ==
    [][lastCall'.op \in {"append", "prepend"} =>
          GetQueueSize([Queue EXCEPT !.tasks = tasks']) = GetQueueSize(Queue) + 1]_vars

\* C11 as the code has it: a call of append or prepend on a stopped queue
\* leaves getQueueSize() one greater; on any queue the size after the call is
\* the size before it, plus the entries added during the call (one for the
\* call itself, one for every append a task makes while it runs), minus the
\* tasks executed during the call.
SizeAfterAdd ==
    [][lastCall'.op \in {"append", "prepend"} =>
          LET before == GetQueueSize(Queue)
              after == GetQueueSize([Queue EXCEPT !.tasks = tasks'])
          IN  /\ after = before + (nextId' - nextId) - Len(executions')
              /\ nextId' - nextId >= 1
              /\ IsStopped(Queue) => (after = before + 1 /\ executions' = <<>>)]_vars

\* a prepend on a stopped queue has made a queue of two entries
SizeAfterAddWitness ==
    /\ lastCall.op = "prepend"
    /\ ~isActive
    /\ Len(tasks) = 2
    /\ tasks[1].eid = 2

\* what a queue that start() was never called on looks like
NotStartedYet == IsStopped(Queue) /\ timers = {}

\* C12: a freshly constructed queue is empty and stopped and
\* getMaxCallsPerSecond() is the rate passed, 1 when none was passed, and it
\* never changes; until start() is called the queue stays as it is but for
\* its pending tasks, and no task is executed; isStarted() and isStopped()
\* are complements, and so are isEmpty() and isNotEmpty().
FreshQueue ==
    /\ [](lastCall.op = "new" =>
            /\ IsEmpty(Queue) /\ GetQueueSize(Queue) = 0
            /\ IsStopped(Queue) /\ ~IsStarted(Queue)
            /\ NotStartedYet
            /\ GetMaxCallsPerSecond =
                  (IF lastCall.arg = Undefined THEN 1 ELSE lastCall.arg))
    /\ [](/\ IsStarted(Queue) = ~IsStopped(Queue)
          /\ IsEmpty(Queue) = ~IsNotEmpty(Queue)
          /\ IsEmpty(Queue) = (GetQueueSize(Queue) = 0))
    /\ [][/\ GetMaxCallsPerSecond' = GetMaxCallsPerSecond
          /\ (NotStartedYet /\ lastCall'.op # "start") =>
                (IsStopped([Queue EXCEPT !.isActive = isActive']) /\ timers' = {}
                   /\ executions' = <<>>)]_vars

\* three tasks wait on a queue built without a rate that was never started,
\* two milliseconds after the first was added
FreshQueueWitness ==
    /\ NotStartedYet
    /\ lastTaskTimestamp = Null
    /\ lastStart = Null
    /\ GetMaxCallsPerSecond = 1
    /\ Len(tasks) = 3
    /\ now = 2
    /\ lastCall.op = "append"

\* C13: at most one timer is outstanding in every state.
OneTimerOutstanding == Cardinality(timers) <= 1

\* C14: the timer handle is null exactly when no timer is outstanding, and
\* otherwise it is the handle of an outstanding timer.
HandleConsistency ==
    /\ (currentTaskTimeoutId = Null) <=> (timers = {})
    /\ currentTaskTimeoutId # Null => \E t \in timers : t.id = currentTaskTimeoutId

\* C15: lastTaskTimestamp is null as long as no task was executed and is
\* otherwise the time the most recent task was executed at.
TimestampAccuracy == lastTaskTimestamp = lastStart

\* the step is a call that runs the scheduling on an active queue with a
\* pending task: append or prepend on an active queue, start() on a stopped
\* queue that is not empty
SchedulingRuns ==
    \/ lastCall'.op \in {"append", "prepend"} /\ isActive
    \/ lastCall'.op = "start" /\ ~isActive /\ tasks # <<>>

\* C16: throttled delay, for a queue constructed with a rate: when the
\* scheduling runs and no more than 1000 / rate ms have passed since
\* lastTaskTimestamp, no task is executed by the call and the timer it arms
\* is due after exactly the rest of the interval (a delay of 0 included,
\* which setTimeout serves as its smallest delay).
ThrottledDelay ==
    [][(/\ jobIntervalMillis # NaN
        /\ SchedulingRuns
        /\ lastTaskTimestamp # Null
        /\ now - lastTaskTimestamp <= IntervalMillis) =>
          /\ executions' = <<>>
          /\ \E t \in timers' :
                /\ t.id = currentTaskTimeoutId'
                /\ t.at = now + TimerDelay(IntervalMillis - (now - lastTaskTimestamp))]_vars

\* the entry at the head of pending when the scheduling of the step runs
HeadAtScheduling ==
    IF tasks = <<>> \/ lastCall'.op = "prepend" THEN nextId ELSE tasks[1].eid

\* C17: cold start and catch-up: when the scheduling runs and
\* lastTaskTimestamp is null or more than 1000 / rate ms old, the head task
\* is executed and a callback of it is called within the call, and the call
\* arms a timer, due after 1000 / rate ms, exactly if a task is still pending.
ColdStart ==
    [][(/\ SchedulingRuns
        /\ (lastTaskTimestamp = Null \/ now - lastTaskTimestamp > IntervalMillis)) =>
          /\ executions' # <<>>
          /\ executions'[1].eid = HeadAtScheduling
          /\ \E j \in 1..Len(calls') : calls'[j].eid = HeadAtScheduling
          /\ IF tasks' = <<>>
             THEN timers' = timers
             ELSE \E t \in timers' \ timers :
                     /\ t.id = currentTaskTimeoutId'
                     /\ t.at = now + TimerDelay(IntervalMillis)]_vars

\* C18: the interval the scheduler uses is 1000 / getMaxCallsPerSecond(), a
\* number greater than 0, for every queue and in every state.
IntervalDerivation ==
    /\ jobIntervalMillis \notin {NaN, Undefined, Null}
    /\ jobIntervalMillis = 1000 \div GetMaxCallsPerSecond
    /\ jobIntervalMillis > 0

Range(seq) == {seq[i] : i \in 1..Len(seq)}
\* the entries a remove(t) step deletes
Removed ==
    IF lastCall'.op = "remove"
    THEN {tasks[i].eid : i \in {j \in 1..Len(tasks) : tasks[j].task = lastCall'.arg}}
    ELSE {}

\* C19: entry conservation, step by step: pending holds no entry twice and
\* only entries made so far; after every step the entries executed in it and
\* the entries left pending are, each once, the entries that were pending
\* before the step and the entries made in it, less the entries remove()
\* deleted, which are not executed.  An entry executed or deleted is thus out
\* of pending for good and cannot be executed again, and no entry leaves
\* pending in another way.
EntryConservation ==
    /\ [](/\ Cardinality(Range(Eids(tasks))) = Len(tasks)
          /\ \A i \in 1..Len(tasks) : tasks[i].eid < nextId)
    /\ [][LET after == Eids(executions') \o Eids(tasks')
          IN  /\ Cardinality(Range(after)) = Len(after)
              /\ Range(after) \cap Removed = {}
              /\ Range(after) \cup Removed =
                    Range(Eids(tasks)) \cup (nextId .. (nextId' - 1))
              /\ lastCall'.op = "remove" => executions' = <<>>]_vars

\* a timer has executed the second of three entries after remove() had
\* deleted none of them: one executed before, one now, one still pending
EntryConservationWitness ==
    /\ lastCall.op = "timer"
    /\ Eids(executions) = <<2>>
    /\ Eids(tasks) = <<3>>

\* C20: for every executed task at most one callback is invoked, and
\* onError only for a task that raised, also when onSuccess throws.
OnErrorOnlyForTaskError ==
    \A i \in 1..Len(executions) :
        LET mine == CallsOf(executions[i].eid)
        IN  /\ Len(mine) <= 1
            /\ \A j \in 1..Len(mine) :
                  mine[j].cb = "onError" => Raises(executions[i].task)

====
